---- MODULE Spec2Model ----
(***************************************************************************)
(* Run-control layer of zemu (src/debug.c, src/debug.h): the process-wide  *)
(* run state, the statically sized breakpoint array, the continue loop,    *)
(* the single step, the halt callback and set_breakpoint.                  *)
(*                                                                         *)
(* The debugger is single-threaded: zemu_debug_continue blocks its caller, *)
(* so the public operations are only taken while no continue is in         *)
(* progress (ctl = "idle").  The continue call is split at its loop        *)
(* boundary into enter / one loop iteration / return, each iteration being *)
(* the whole loop body (step, then the scan of the breakpoint array).      *)
(*                                                                         *)
(* z80_run is the external CPU core.  What the debugger sees of it is a    *)
(* new program counter, a cycle count of at least one and, possibly, one   *)
(* invocation of the halt callback zemu_debug_halt(context, state).        *)
(*                                                                         *)
(* The cycle accumulator (zusize) is not reduced modulo its width: the     *)
(* loop compares it only against a non-negative budget of a narrower or    *)
(* equal signed type, which it reaches before it can wrap.  A continue     *)
(* with a negative budget is followed for at most MaxSteps iterations.     *)
(***************************************************************************)
EXTENDS Integers, Sequences, FiniteSets

\* ---------------------------------------------------------------- bounds
\* Addresses (zuint16) range over 0..MaxAddr.
MaxAddr == 2
\* One instruction costs 1..MaxCost cycles.
MaxCost == 2
\* Non-negative budgets range over 0..MaxBudget.
MaxBudget == 2
\* A continue with a negative budget is followed for MaxSteps iterations.
MaxSteps == 3
\* breakpoint_count is followed up to this far past the size of the array.
MaxOverrun == 1
\* Register identifiers (zuint16) range over 0..MaxRegId; 0..19 are known.
MaxRegId == 20

\* ------------------------------------------------------ program constants
\* Size of the breakpoint array (debug.h default 256, overridable at build
\* time); the model is built with a small override.
ZEMU_DEBUG_MAX_BREAKPOINTS == 2

RUNNING == 0
HALTED == 1
BREAK == 2
UNDEFINED == -1

RunState == {RUNNING, HALTED, BREAK, UNDEFINED}

Addrs == 0..MaxAddr
Costs == 1..MaxCost
Budgets == (-1)..MaxBudget
CountCap == ZEMU_DEBUG_MAX_BREAKPOINTS + MaxOverrun
RegIds == 0..MaxRegId
\* The identifiers Spec follows among the other operations: a 16-bit
\* register, a high half, the last known identifier and an unknown one.
ProbeIds == {0, 4, 19, MaxRegId}
\* Register contents of the CPU states SpecReg reads, besides Z80State.
RegValues == {0, 255, 65280, 65535}

\* What z80_run may do to the debugger during one instruction: nothing,
\* or call the halt callback with TRUE (HALT executed) or FALSE (HALT left).
Callbacks == {"none", "halt_true", "halt_false"}

\* Where a store to breakpoints[ZEMU_DEBUG_MAX_BREAKPOINTS] or beyond lands:
\* on breakpoint_count, the object defined right after the array, or on
\* memory the debugger does not own.  zemu_debug_state is initialised data
\* (UNDEFINED), which linkers place below the zero-initialised array, out
\* of reach of a store at a non-negative index.
Overruns == {"other", "count"}

VARIABLES
    zemu_debug_state,   \* RunState zemu_debug_state
    breakpoints,        \* zuint16 breakpoints[ZEMU_DEBUG_MAX_BREAKPOINTS]
    breakpoint_count,   \* unsigned int breakpoint_count
    instance,           \* the caller's Z80 instance (its state field)
    ctl,                \* "idle", or "loop" while a continue is in progress
    run_cycles,         \* budget argument of the current/last continue
    cycles,             \* local accumulator of the current/last continue
    ret,                \* value returned by the last continue or step
    lastOp,             \* the public operation that acted last
    lastReg,            \* register identifier of the last register read
    steps,              \* history: iterations of the current/last continue
    lastCost,           \* history: cycles of the last executed instruction
    sumCost,            \* history: sum of the costs of those iterations
    hits,               \* history: iterations whose PC was a breakpoint
    lastCb,             \* history: callback made during the last direct step
    haltReq,            \* history: most recent halt request
    contSince,          \* history: a continue call ran since that request
    haltLost            \* history: the scan stored BREAK over that request

vars == <<zemu_debug_state, breakpoints, breakpoint_count, instance, ctl,
          run_cycles, cycles, ret, lastOp, lastReg, steps, lastCost,
          sumCost, hits, lastCb, haltReq, contSince, haltLost>>

debugger == <<zemu_debug_state, breakpoints, breakpoint_count>>
call == <<run_cycles, cycles, steps, sumCost, hits>>
halts == <<haltReq, contSince, haltLost>>

\* ------------------------------------------------------------- CPU state
\* Z80 state as far as debug.c reads it: pc, sp, the index registers and
\* the main and alternate register pairs.
Z80State(p) ==
    [pc |-> p, sp |-> 65535, iy |-> 4660, ix |-> 22136,
     af |-> 258, bc |-> 772, de |-> 1286, hl |-> 1800,
     af_ |-> 2314, bc_ |-> 2828, de_ |-> 3342, hl_ |-> 3856]

\* A CPU state whose registers all hold v.
UniformState(v) ==
    [pc |-> v, sp |-> v, iy |-> v, ix |-> v,
     af |-> v, bc |-> v, de |-> v, hl |-> v,
     af_ |-> v, bc_ |-> v, de_ |-> v, hl_ |-> v]

\* values_uint8.index1 and values_uint8.index0 of a 16-bit register pair:
\* its most and its least significant byte.
Index1(pair) == pair \div 256
Index0(pair) == pair % 256

\* Variant: the two halves of the main AF pair are exchanged.
zemu_debug_register_swapped(st, r) ==
    CASE r = 0  -> st.pc
      [] r = 1  -> st.sp
      [] r = 2  -> st.iy
      [] r = 3  -> st.ix
      [] r = 4  -> Index0(st.af)
      [] r = 5  -> Index1(st.af)
      [] r = 6  -> Index1(st.bc)
      [] r = 7  -> Index0(st.bc)
      [] r = 8  -> Index1(st.de)
      [] r = 9  -> Index0(st.de)
      [] r = 10 -> Index1(st.hl)
      [] r = 11 -> Index0(st.hl)
      [] r = 12 -> Index1(st.af_)
      [] r = 13 -> Index0(st.af_)
      [] r = 14 -> Index1(st.bc_)
      [] r = 15 -> Index0(st.bc_)
      [] r = 16 -> Index1(st.de_)
      [] r = 17 -> Index0(st.de_)
      [] r = 18 -> Index1(st.hl_)
      [] r = 19 -> Index0(st.hl_)
      [] OTHER  -> 65535

\* zemu_debug_register(instance, r): the switch over r.
zemu_debug_register(st, r) ==
    CASE r = 0  -> st.pc
      [] r = 1  -> st.sp
      [] r = 2  -> st.iy
      [] r = 3  -> st.ix
      [] r = 4  -> Index1(st.af)
      [] r = 5  -> Index0(st.af)
      [] r = 6  -> Index1(st.bc)
      [] r = 7  -> Index0(st.bc)
      [] r = 8  -> Index1(st.de)
      [] r = 9  -> Index0(st.de)
      [] r = 10 -> Index1(st.hl)
      [] r = 11 -> Index0(st.hl)
      [] r = 12 -> Index1(st.af_)
      [] r = 13 -> Index0(st.af_)
      [] r = 14 -> Index1(st.bc_)
      [] r = 15 -> Index0(st.bc_)
      [] r = 16 -> Index1(st.de_)
      [] r = 17 -> Index0(st.de_)
      [] r = 18 -> Index1(st.hl_)
      [] r = 19 -> Index0(st.hl_)
      [] OTHER  -> 65535

\* zemu_memory_peek(address): the byte of the emulated memory at address.
\* The debugger has no operation that writes the memory, and the model
\* follows no store of the program: the memory is a fixed image.
zemu_memory_peek(address) == (address * 37 + 1) % 256

\* zboolean as the integer a caller receives.
Bool(b) == IF b THEN 1 ELSE 0

\* ------------------------------------------------------------ breakpoints
\* The cells of the array the scan loop of continue reads inside the array.
InBounds(count) ==
    {b \in 0..(ZEMU_DEBUG_MAX_BREAKPOINTS - 1) : b < count}

\* Variant: the scan stops after the first cell.
Matches_first(p, bps, count) ==
    count > 0 /\ p = bps[0]

\* for (b = 0; b < breakpoint_count; b++) if (pc == breakpoints[b]) ...
\* restricted to the cells inside the array.
Matches(p, bps, count) ==
    \E b \in InBounds(count) : p = bps[b]

\* The scan after a step.  Cells at index >= ZEMU_DEBUG_MAX_BREAKPOINTS lie
\* outside the array; what they hold is not determined by the debugger, so
\* whether one of them equals the PC is the input oob.
ScanBreakpoints(st, p, bps, count, oob) ==
    IF Matches(p, bps, count)
       \/ (count > ZEMU_DEBUG_MAX_BREAKPOINTS /\ oob)
    THEN BREAK
    ELSE st

\* ------------------------------------------------------------------ halt
\* Variant: clearing a halt goes back to the initial state.
HaltState_undefined(state) == IF state THEN HALTED ELSE UNDEFINED

\* Variant: the argument is ignored.
HaltState_always(state) == HALTED

\* zemu_debug_halt: the state it stores.
HaltState(state) == IF state THEN HALTED ELSE RUNNING

\* Effect of the halt callback, if the core invokes it, on the run state.
ApplyCallback(st, cb) ==
    CASE cb = "halt_true"  -> HaltState(TRUE)
      [] cb = "halt_false" -> HaltState(FALSE)
      [] OTHER             -> st

\* zemu_debug_halted(), zemu_debug_break()
zemu_debug_halted == zemu_debug_state = HALTED
zemu_debug_break == zemu_debug_state = BREAK

\* --------------------------------------------------------------- history
\* The most recent halt request after an instruction that made callback cb.
RequestAfter(req, cb) ==
    CASE cb = "halt_true"  -> "true"
      [] cb = "halt_false" -> "false"
      [] OTHER             -> req

\* Address x has been stored in the array by set_breakpoint and is counted.
Registered(x) ==
    \E b \in 0..(ZEMU_DEBUG_MAX_BREAKPOINTS - 1) :
        b < breakpoint_count /\ breakpoints[b] = x

\* ------------------------------------------------------------------ init
Init ==
    /\ zemu_debug_state = UNDEFINED
    /\ breakpoints = [b \in 0..(ZEMU_DEBUG_MAX_BREAKPOINTS - 1) |-> 0]
    /\ breakpoint_count = 0
    /\ \E p \in Addrs : instance = Z80State(p)
    /\ ctl = "idle"
    /\ run_cycles = 0
    /\ cycles = 0
    /\ ret = 0
    /\ lastOp = "none"
    /\ lastReg = 0
    /\ steps = 0
    /\ lastCost = 0
    /\ sumCost = 0
    /\ hits = 0
    /\ lastCb = "none"
    /\ haltReq = "none"
    /\ contSince = FALSE
    /\ haltLost = FALSE

\* --------------------------------------------------------------- actions
\* The locals of zemu_debug_continue and the history of its loop do not
\* outlive the call: every other operation leaves them cleared.
NoCall ==
    /\ lastReg' = 0
    /\ run_cycles' = 0
    /\ cycles' = 0
    /\ steps' = 0
    /\ sumCost' = 0
    /\ hits' = 0

\* zemu_debug_halt(context, state), called by the front end.
zemu_debug_halt(state) ==
    /\ ctl = "idle"
    /\ zemu_debug_state' = HaltState(state)
    /\ haltReq' = IF state THEN "true" ELSE "false"
    /\ contSince' = FALSE
    /\ haltLost' = FALSE
    /\ lastOp' = "halt"
    /\ ret' = 0
    /\ lastCost' = 0
    /\ lastCb' = "none"
    /\ NoCall
    /\ UNCHANGED <<breakpoints, breakpoint_count, instance, ctl>>

\* Variant: the step also scans the breakpoints.
zemu_debug_step_scan(p, c, cb) ==
    /\ ctl = "idle"
    /\ instance' = [instance EXCEPT !.pc = p]
    /\ zemu_debug_state' =
          IF \E b \in 0..(ZEMU_DEBUG_MAX_BREAKPOINTS - 1) :
                 b < breakpoint_count /\ breakpoints[b] = p
          THEN BREAK
          ELSE CASE cb = "halt_true"  -> HALTED
                 [] cb = "halt_false" -> RUNNING
                 [] OTHER             -> zemu_debug_state
    /\ haltReq' = (CASE cb = "halt_true" -> "true"
                     [] cb = "halt_false" -> "false"
                     [] OTHER -> haltReq)
    /\ contSince' = IF cb = "none" THEN contSince ELSE FALSE
    /\ haltLost' = IF cb = "none" THEN haltLost ELSE FALSE
    /\ ret' = c
    /\ lastCost' = c
    /\ lastCb' = cb
    /\ lastOp' = "step"
    /\ lastReg' = 0
    /\ run_cycles' = 0
    /\ cycles' = 0
    /\ steps' = 0
    /\ sumCost' = 0
    /\ hits' = 0
    /\ UNCHANGED <<breakpoints, breakpoint_count, ctl>>

\* zemu_debug_step(instance), called directly: z80_run(instance, 1), during
\* which the core may call zemu_debug_halt.  No breakpoint is looked at.
zemu_debug_step(p, c, cb) ==
    /\ ctl = "idle"
    /\ instance' = [instance EXCEPT !.pc = p]
    /\ zemu_debug_state' = ApplyCallback(zemu_debug_state, cb)
    /\ haltReq' = RequestAfter(haltReq, cb)
    /\ contSince' = IF cb = "none" THEN contSince ELSE FALSE
    /\ haltLost' = IF cb = "none" THEN haltLost ELSE FALSE
    /\ ret' = c
    /\ lastCost' = c
    /\ lastCb' = cb
    /\ lastOp' = "step"
    /\ NoCall
    /\ UNCHANGED <<breakpoints, breakpoint_count, ctl>>

\* Variant: the test is made against the wrong state.
ReturnsAtOnce_break(st) == st = BREAK

\* if (zemu_debug_state == HALTED) return 0;
ReturnsAtOnce(st) == st = HALTED

\* Variant: the state is not set to RUNNING before the loop.
zemu_debug_continue_enter_keep(budget) ==
    /\ ctl = "idle"
    /\ lastOp' = "continue"
    /\ lastReg' = 0
    /\ run_cycles' = budget
    /\ contSince' = TRUE
    /\ steps' = 0
    /\ sumCost' = 0
    /\ hits' = 0
    /\ lastCost' = 0
    /\ lastCb' = "none"
    /\ ret' = 0
    /\ cycles' = 0
    /\ IF ReturnsAtOnce(zemu_debug_state)
       THEN UNCHANGED <<zemu_debug_state, ctl>>
       ELSE /\ UNCHANGED zemu_debug_state
            /\ ctl' = "loop"
    /\ UNCHANGED <<breakpoints, breakpoint_count, instance, haltReq,
                   haltLost>>

\* Variant: the breakpoints are looked at before the first step.
zemu_debug_continue_enter_scan(budget) ==
    /\ ctl = "idle"
    /\ lastOp' = "continue"
    /\ lastReg' = 0
    /\ run_cycles' = budget
    /\ contSince' = TRUE
    /\ steps' = 0
    /\ sumCost' = 0
    /\ hits' = 0
    /\ lastCost' = 0
    /\ lastCb' = "none"
    /\ ret' = 0
    /\ cycles' = 0
    /\ IF zemu_debug_state = HALTED
       THEN UNCHANGED <<zemu_debug_state, ctl>>
       ELSE /\ zemu_debug_state' =
                  IF \E b \in 0..(ZEMU_DEBUG_MAX_BREAKPOINTS - 1) :
                         b < breakpoint_count /\ breakpoints[b] = instance.pc
                  THEN BREAK ELSE RUNNING
            /\ ctl' = "loop"
    /\ UNCHANGED <<breakpoints, breakpoint_count, instance, haltReq,
                   haltLost>>

\* zemu_debug_continue, entry: return 0 when halted, else start the loop.
zemu_debug_continue_enter(budget) ==
    /\ ctl = "idle"
    /\ lastOp' = "continue"
    /\ lastReg' = 0
    /\ run_cycles' = budget
    /\ contSince' = TRUE
    /\ steps' = 0
    /\ sumCost' = 0
    /\ hits' = 0
    /\ lastCost' = 0
    /\ lastCb' = "none"
    /\ ret' = 0
    /\ cycles' = 0
    /\ IF ReturnsAtOnce(zemu_debug_state)
       THEN UNCHANGED <<zemu_debug_state, ctl>>
       ELSE /\ zemu_debug_state' = RUNNING
            /\ ctl' = "loop"
    /\ UNCHANGED <<breakpoints, breakpoint_count, instance, haltReq,
                   haltLost>>

\* Variant: the comparison with the budget is off by one.
LoopCondition_le(st, budget, acc) ==
    st = RUNNING /\ (budget < 0 \/ acc <= budget)

\* Variant: a negative budget is not treated as unbounded.
LoopCondition_signed(st, budget, acc) ==
    st = RUNNING /\ acc < budget

\* The condition of the while loop.
LoopCondition(st, budget, acc) ==
    st = RUNNING /\ (budget < 0 \/ acc < budget)

\* One iteration of the loop: the step, then the scan of the breakpoints.
zemu_debug_continue_loop(p, c, cb, oob) ==
    /\ ctl = "loop"
    /\ oob => breakpoint_count > ZEMU_DEBUG_MAX_BREAKPOINTS
    /\ LoopCondition(zemu_debug_state, run_cycles, cycles)
    /\ run_cycles < 0 => steps < MaxSteps
    /\ cycles' = cycles + c
    /\ instance' = [instance EXCEPT !.pc = p]
    /\ zemu_debug_state' =
          ScanBreakpoints(ApplyCallback(zemu_debug_state, cb), p,
                          breakpoints, breakpoint_count, oob)
    /\ haltReq' = RequestAfter(haltReq, cb)
    /\ contSince' = IF cb = "none" THEN contSince ELSE FALSE
    /\ haltLost' = IF cb = "none" THEN haltLost
                   ELSE /\ ApplyCallback(zemu_debug_state, cb) = HALTED
                        /\ zemu_debug_state' # HALTED
    /\ steps' = steps + 1
    /\ lastCost' = c
    /\ sumCost' = sumCost + c
    /\ hits' = IF Registered(p) THEN hits + 1 ELSE hits
    /\ UNCHANGED <<breakpoints, breakpoint_count, ctl, run_cycles, ret,
                   lastOp, lastReg, lastCb>>

\* The loop condition is false: return cycles.
zemu_debug_continue_return ==
    /\ ctl = "loop"
    /\ ~LoopCondition(zemu_debug_state, run_cycles, cycles)
    /\ ret' = cycles
    /\ ctl' = "idle"
    /\ UNCHANGED <<debugger, instance, lastOp, lastReg, lastCost, lastCb,
                   call, halts>>

\* zemu_debug_set_breakpoint(address) while breakpoint_count indexes the
\* array.
StoreInside(address) ==
    /\ breakpoint_count < ZEMU_DEBUG_MAX_BREAKPOINTS
    /\ breakpoints' = [breakpoints EXCEPT ![breakpoint_count] = address]
    /\ breakpoint_count' = breakpoint_count + 1

\* zemu_debug_set_breakpoint(address) when breakpoint_count is not an index
\* of the array: the array is left as it is and the 16-bit store goes to
\* the object that follows it.  On breakpoint_count it replaces the count
\* (below 65536) by the address, which the increment then raises by one.
StoreOutside(address, where) ==
    /\ breakpoint_count >= ZEMU_DEBUG_MAX_BREAKPOINTS
    /\ breakpoint_count < CountCap
    /\ UNCHANGED breakpoints
    /\ IF where = "count"
       THEN /\ address + 1 <= CountCap
            /\ breakpoint_count' = address + 1
       ELSE breakpoint_count' = breakpoint_count + 1

\* Variant: a breakpoint set at the current PC fires at once.
zemu_debug_set_breakpoint_fires(address) ==
    /\ ctl = "idle"
    /\ \/ StoreInside(address)
       \/ \E where \in Overruns : StoreOutside(address, where)
    /\ zemu_debug_state' =
          IF address = instance.pc THEN BREAK ELSE zemu_debug_state
    /\ lastOp' = "set_breakpoint"
    /\ ret' = 0
    /\ lastCost' = 0
    /\ lastCb' = "none"
    /\ NoCall
    /\ UNCHANGED <<instance, ctl, halts>>

zemu_debug_set_breakpoint(address) ==
    /\ ctl = "idle"
    /\ \/ StoreInside(address)
       \/ \E where \in Overruns : StoreOutside(address, where)
    /\ lastOp' = "set_breakpoint"
    /\ ret' = 0
    /\ lastCost' = 0
    /\ lastCb' = "none"
    /\ NoCall
    /\ UNCHANGED <<zemu_debug_state, instance, ctl, halts>>

\* An operation that only reads: it returns value and changes nothing.
Observe(op, value) ==
    /\ ctl = "idle"
    /\ lastOp' = op
    /\ ret' = value
    /\ lastCost' = 0
    /\ lastCb' = "none"
    /\ run_cycles' = 0
    /\ cycles' = 0
    /\ steps' = 0
    /\ sumCost' = 0
    /\ hits' = 0
    /\ UNCHANGED <<debugger, instance, ctl, halts>>

\* Variant: an unknown identifier is clamped to the last known one.
zemu_debug_register_call_clamped(r) ==
    /\ Observe("register",
               zemu_debug_register(instance, IF r > 19 THEN 19 ELSE r))
    /\ lastReg' = r

\* zemu_debug_register(instance, r), called by the front end.
zemu_debug_register_call(r) ==
    /\ Observe("register", zemu_debug_register(instance, r))
    /\ lastReg' = r

\* zemu_debug_halted(), called by the front end.
zemu_debug_halted_call ==
    /\ Observe("halted", Bool(zemu_debug_halted))
    /\ lastReg' = 0

\* zemu_debug_break(), called by the front end.
zemu_debug_break_call ==
    /\ Observe("break", Bool(zemu_debug_break))
    /\ lastReg' = 0

\* zemu_debug_get_memory(address), called by the front end.
zemu_debug_get_memory(address) ==
    /\ Observe("get_memory", zemu_memory_peek(address))
    /\ lastReg' = 0

Next ==
    \/ \E state \in BOOLEAN : zemu_debug_halt(state)
    \/ \E p \in Addrs, c \in Costs, cb \in Callbacks : zemu_debug_step(p, c, cb)
    \/ \E budget \in Budgets : zemu_debug_continue_enter(budget)
    \/ \E p \in Addrs, c \in Costs, cb \in Callbacks, oob \in BOOLEAN :
          zemu_debug_continue_loop(p, c, cb, oob)
    \/ zemu_debug_continue_return
    \/ \E address \in Addrs : zemu_debug_set_breakpoint(address)
    \/ \E r \in ProbeIds : zemu_debug_register_call(r)
    \/ zemu_debug_halted_call
    \/ zemu_debug_break_call
    \/ \E address \in Addrs : zemu_debug_get_memory(address)

Spec == Init /\ [][Next]_vars

\* One iteration of the loop of zemu_debug_continue, whatever the core does.
LoopStep ==
    \E p \in Addrs, c \in Costs, cb \in Callbacks, oob \in BOOLEAN :
        zemu_debug_continue_loop(p, c, cb, oob)

\* A call of zemu_debug_continue runs on the caller's thread without being
\* suspended: an iteration that can run does run, and so does the return.
FairSpec ==
    /\ Spec
    /\ WF_vars(LoopStep)
    /\ WF_vars(zemu_debug_continue_return)

\* Register reads: the front end reads every identifier of a CPU state it
\* was handed, between halt requests and insertions of breakpoints.
InitReg ==
    /\ zemu_debug_state = UNDEFINED
    /\ breakpoints = [b \in 0..(ZEMU_DEBUG_MAX_BREAKPOINTS - 1) |-> 0]
    /\ breakpoint_count = 0
    /\ \/ \E p \in Addrs : instance = Z80State(p)
       \/ \E v \in RegValues : instance = UniformState(v)
    /\ ctl = "idle"
    /\ run_cycles = 0
    /\ cycles = 0
    /\ ret = 0
    /\ lastOp = "none"
    /\ lastReg = 0
    /\ steps = 0
    /\ lastCost = 0
    /\ sumCost = 0
    /\ hits = 0
    /\ lastCb = "none"
    /\ haltReq = "none"
    /\ contSince = FALSE
    /\ haltLost = FALSE

NextReg ==
    \/ \E r \in RegIds : zemu_debug_register_call(r)
    \/ \E state \in BOOLEAN : zemu_debug_halt(state)
    \/ \E address \in Addrs : zemu_debug_set_breakpoint(address)

SpecReg == InitReg /\ [][NextReg]_vars

TypeOK ==
    /\ zemu_debug_state \in RunState
    /\ breakpoint_count \in 0..CountCap
    /\ instance.pc \in Addrs
    /\ ctl \in {"idle", "loop"}

\* ================================================================ claims

\* C1 (halt precedence): a continue called while the run state is Halted
\* returns 0, performs no step, leaves the CPU state (PC included) as it
\* was and leaves the run state Halted, for every budget.
C1_HaltPrecedence ==
    [][(ctl = "idle" /\ lastOp' = "continue" /\ zemu_debug_state = HALTED)
         => /\ ret' = 0
            /\ steps' = 0
            /\ cycles' = 0
            /\ ctl' = "idle"
            /\ instance' = instance
            /\ zemu_debug_state' = HALTED]_vars

C1_Witness ==
    /\ ctl = "idle" /\ lastOp = "continue"
    /\ zemu_debug_halted
    /\ steps = 0 /\ ret = 0
    /\ run_cycles < 0

\* C2 (breakpoint firing): within a continue that has stepped, the PC is a
\* registered address exactly when this is the one and only step of the
\* call that landed on a registered address; the state is then Break
\* (break_hit() true, halted() false), no further step is made, and the
\* call returns the sum of the cycles of its steps.
C2_BreakpointFiring ==
    (lastOp = "continue" /\ steps >= 1)
      => /\ hits = (IF Registered(instance.pc) THEN 1 ELSE 0)
         /\ Registered(instance.pc)
              => /\ zemu_debug_break
                 /\ ~zemu_debug_halted
                 /\ ctl = "idle" => ret = sumCost

C2_Witness ==
    /\ ctl = "idle" /\ lastOp = "continue"
    /\ run_cycles < 0
    /\ steps >= 2
    /\ breakpoint_count = 2
    /\ breakpoints[0] # instance.pc
    /\ breakpoints[1] = instance.pc
    /\ zemu_debug_break
    /\ ret = sumCost

\* C3 (capacity enforcement): the number of stored breakpoints never
\* exceeds the size of the breakpoint array.
C3_CapacityEnforced ==
    breakpoint_count <= ZEMU_DEBUG_MAX_BREAKPOINTS

\* C4 (cycle-budget stop): in a continue with budget N > 0 every step is
\* started with fewer than N accumulated cycles, and when the call returns
\* with the state still Running the returned total C satisfies C >= N and
\* C minus the cost of the last step < N.
C4_BudgetStop ==
    (lastOp = "continue" /\ run_cycles > 0)
      => /\ cycles - lastCost < run_cycles
         /\ (ctl = "idle" /\ zemu_debug_state = RUNNING)
              => /\ ret >= run_cycles
                 /\ ret - lastCost < run_cycles

C4_Witness ==
    /\ ctl = "idle" /\ lastOp = "continue"
    /\ zemu_debug_state = RUNNING
    /\ run_cycles = MaxBudget
    /\ steps >= 2
    /\ ret > run_cycles

\* C5 (unbounded budget): a continue with a negative budget never returns
\* with the state Running; it returns only with Break or Halted.
C5_UnboundedBudget ==
    (ctl = "idle" /\ lastOp = "continue" /\ run_cycles < 0)
      => zemu_debug_state \in {BREAK, HALTED}

C5_Witness ==
    /\ ctl = "idle" /\ lastOp = "continue"
    /\ run_cycles < 0
    /\ steps = MaxSteps
    /\ ret > MaxBudget
    /\ zemu_debug_break

C7_BreakProvenance ==
    [][(zemu_debug_state' = BREAK /\ zemu_debug_state # BREAK)
         => /\ ctl = "loop"
            /\ steps' = steps + 1
            /\ \E b \in 0..(ZEMU_DEBUG_MAX_BREAKPOINTS - 1) :
                  b < breakpoint_count /\ breakpoints[b] = instance'.pc]_vars

\* C8 (tie-break): before the first step of a continue the state is never
\* Break, also when the PC at the call is a registered address: the loop
\* is entered with the state Running.
C8_TieBreak ==
    (lastOp = "continue" /\ steps = 0)
      => /\ zemu_debug_state \in {RUNNING, HALTED}
         /\ ctl = "loop" => zemu_debug_state = RUNNING

C8_Witness ==
    /\ ctl = "loop" /\ lastOp = "continue"
    /\ steps = 0
    /\ Registered(instance.pc)
    /\ zemu_debug_state = RUNNING

\* C9 (halt): a halt(requested) call sets the state to Halted when
\* requested is true and to Running when it is false, whatever the state
\* was, and leaves the breakpoint array, its count and the CPU unchanged.
C9_HaltEffect ==
    [][(ctl = "idle" /\ lastOp' = "halt")
         => /\ zemu_debug_state' =
                  (IF haltReq' = "true" THEN HALTED ELSE RUNNING)
            /\ UNCHANGED <<breakpoints, breakpoint_count, instance>>]_vars

C9_Witness ==
    /\ lastOp = "halt"
    /\ haltReq = "false"
    /\ zemu_debug_state = RUNNING
    /\ breakpoint_count = ZEMU_DEBUG_MAX_BREAKPOINTS
    /\ Registered(instance.pc)

\* C10 (step, as claimed): a direct step returns at least 1 cycle and
\* leaves the run state as it was.
C10_StepKeepsState ==
    [][(ctl = "idle" /\ lastOp' = "step")
         => /\ ret' >= 1
            /\ zemu_debug_state' = zemu_debug_state]_vars

\* C10 (amended): a direct step returns at least 1 cycle and evaluates no
\* breakpoint; the run state is as it was unless the core calls the halt
\* callback during the instruction, and is then Halted (TRUE) or Running
\* (FALSE); the breakpoint array and its count are unchanged.
C10_StepAmended ==
    [][(ctl = "idle" /\ lastOp' = "step")
         => /\ ret' >= 1
            /\ zemu_debug_state' =
                  (CASE lastCb' = "halt_true"  -> HALTED
                     [] lastCb' = "halt_false" -> RUNNING
                     [] OTHER                  -> zemu_debug_state)
            /\ UNCHANGED <<breakpoints, breakpoint_count>>]_vars

C10_Witness ==
    /\ lastOp = "step"
    /\ lastCb = "none"
    /\ ret >= 1
    /\ Registered(instance.pc)
    /\ zemu_debug_state = RUNNING

\* C11 (Undefined): the run state is Undefined initially, and after a
\* transition it is Undefined only if it was Undefined before and the
\* transition was neither a halt nor a continue call: once left, Undefined
\* is never entered again.
C11_UndefinedOnlyInitially ==
    /\ zemu_debug_state = UNDEFINED
    /\ [][zemu_debug_state' = UNDEFINED
            => /\ zemu_debug_state = UNDEFINED
               /\ lastOp' \notin {"halt", "continue"}]_vars

C11_Witness ==
    /\ lastOp = "step"
    /\ lastCb = "none"
    /\ haltReq = "none"
    /\ zemu_debug_state = RUNNING

\* C12 (registry): the count of stored breakpoints never decreases, the
\* cells already counted keep their value, and the array and its count
\* change only in set_breakpoint, which writes the address at the end.
C12_RegistryAppendOnly ==
    [][/\ breakpoint_count' >= breakpoint_count
       /\ \A b \in 0..(ZEMU_DEBUG_MAX_BREAKPOINTS - 1) :
             b < breakpoint_count => breakpoints'[b] = breakpoints[b]
       /\ <<breakpoints, breakpoint_count>>' # <<breakpoints, breakpoint_count>>
             => lastOp' = "set_breakpoint"]_vars

\* C13 (register mapping): identifiers 0..3 read PC, SP, IY, IX in full;
\* identifier 4 + 2i reads the high and 5 + 2i the low byte of the i-th
\* pair of AF, BC, DE, HL, AF', BC', DE', HL'; a byte is at most 0xFF.
C13_RegisterMapping ==
    (lastOp = "register" /\ lastReg \in 0..19)
      => LET wide == <<instance.pc, instance.sp, instance.iy, instance.ix>>
             pairs == <<instance.af, instance.bc, instance.de, instance.hl,
                        instance.af_, instance.bc_, instance.de_,
                        instance.hl_>>
             i == (lastReg - 4) \div 2
             high == (lastReg - 4) % 2 = 0
         IN  IF lastReg < 4
             THEN ret = wide[lastReg + 1]
             ELSE /\ ret <= 255
                  /\ high => ret * 256 + (pairs[i + 1] % 256) = pairs[i + 1]
                  /\ ~high => \E h \in 0..255 : h * 256 + ret = pairs[i + 1]

C13_Witness ==
    /\ lastOp = "register"
    /\ lastReg = 5
    /\ instance.af = 258
    /\ ret = 2

\* C14 (register read is total and pure): a register read changes neither
\* the CPU state, the run state nor the breakpoint array and its count, and
\* for an identifier outside 0..19 it returns 0xFFFF.
C14_RegisterTotalPure ==
    [][(ctl = "idle" /\ lastOp' = "register")
         => /\ UNCHANGED <<zemu_debug_state, breakpoints, breakpoint_count,
                           instance>>
            /\ lastReg' \notin 0..19 => ret' = 65535]_vars

C14_Witness ==
    /\ lastOp = "register"
    /\ lastReg = MaxRegId
    /\ ret = 65535
    /\ instance.pc = 0 /\ instance.sp = 0
    /\ zemu_debug_state = HALTED
    /\ breakpoint_count = ZEMU_DEBUG_MAX_BREAKPOINTS

\* C15 (a halt is not lost to a breakpoint): when the core requested a halt
\* during a step of the current or last continue, the state is Halted.
C15_HaltNotLost ==
    (lastOp = "continue" /\ haltReq = "true" /\ ~contSince)
      => zemu_debug_halted

\* C16 (at least one step, as claimed): a continue started in a non-Halted
\* state has made at least one step when it returns, and returns at least
\* 1, for every budget.
C16_AtLeastOneStep ==
    (ctl = "idle" /\ lastOp = "continue"
       /\ ~(steps = 0 /\ zemu_debug_halted))
      => (steps >= 1 /\ ret >= 1)

\* C16 (amended): a continue started in a non-Halted state with a budget
\* other than 0 has made at least one step when it returns, and returns at
\* least 1; with budget 0 it makes no step and returns 0 with the state
\* Running.
C16_AtLeastOneStepAmended ==
    (ctl = "idle" /\ lastOp = "continue"
       /\ ~(steps = 0 /\ zemu_debug_halted))
      => IF run_cycles = 0
         THEN steps = 0 /\ ret = 0 /\ zemu_debug_state = RUNNING
         ELSE steps >= 1 /\ ret >= 1

C16_Witness ==
    /\ ctl = "idle" /\ lastOp = "continue"
    /\ run_cycles = 0
    /\ steps = 0 /\ ret = 0
    /\ zemu_debug_state = RUNNING
    /\ Registered(instance.pc)

\* C17 (stop conditions): when a continue started in a non-Halted state
\* has returned, the state is Break, or Halted, or it is Running with a
\* non-negative budget N and a returned count >= N (then halted() and
\* break_hit() are both false).
C17_ReturnsOnStop ==
    (ctl = "idle" /\ lastOp = "continue"
       /\ ~(steps = 0 /\ zemu_debug_halted))
      => \/ zemu_debug_break
         \/ zemu_debug_halted
         \/ /\ zemu_debug_state = RUNNING
            /\ run_cycles >= 0
            /\ ret >= run_cycles

C17_Witness ==
    /\ ctl = "idle" /\ lastOp = "continue"
    /\ zemu_debug_state = RUNNING
    /\ ~zemu_debug_halted /\ ~zemu_debug_break
    /\ Registered(instance.pc) = FALSE
    /\ breakpoint_count > 0
    /\ run_cycles = 1
    /\ ret = MaxCost

\* C18 (bounded continue terminates): with every step costing at least one
\* cycle, a continue with budget N >= 0 makes at most N steps and, the loop
\* being scheduled fairly, returns; an iteration runs only in state
\* Running, so a continue whose state has left Running (breakpoint or halt)
\* returns as well, and only a negative budget can keep the loop going.
C18_BoundedTerminates ==
    /\ []((lastOp = "continue" /\ run_cycles >= 0) => steps <= run_cycles)
    /\ [][(ctl = "loop" /\ steps' = steps + 1)
            => zemu_debug_state = RUNNING]_vars
    /\ (ctl = "loop" /\ (run_cycles >= 0 \/ zemu_debug_state # RUNNING))
          ~> (ctl = "idle")

C18_Witness ==
    /\ ctl = "idle" /\ lastOp = "continue"
    /\ run_cycles = MaxBudget
    /\ steps = run_cycles
    /\ ret = run_cycles
    /\ zemu_debug_state = RUNNING

\* C19 (run state frame): set_breakpoint, the register read, halted(),
\* break_hit() and the memory peek leave the run state unchanged, also when
\* the address added is the current PC; the state changes only in halt,
\* in continue, or in a step during which the core calls halt; an observer
\* called again right after itself returns the same value.
C19_RunStateFrame ==
    [][/\ lastOp' \in {"set_breakpoint", "register", "halted", "break",
                       "get_memory"}
            => zemu_debug_state' = zemu_debug_state
       /\ zemu_debug_state' # zemu_debug_state
            => \/ lastOp' \in {"halt", "continue"}
               \/ lastOp' = "step" /\ lastCb' # "none"
       /\ (lastOp' = lastOp /\ lastOp \in {"halted", "break"})
            => ret' = ret]_vars

C19_Witness ==
    /\ lastOp = "set_breakpoint"
    /\ breakpoint_count = 1
    /\ breakpoints[0] = instance.pc
    /\ zemu_debug_state = RUNNING
    /\ ~zemu_debug_break

====
